---------------------------- MODULE Spec2Model ----------------------------
(* kvirt-exporter: the VM CPU collector (collector/collector.go) and the   *)
(* scrape goroutines that call its Collect method (cmd/kvirt-expoter).     *)
(*                                                                         *)
(* Text sources (virsh, ps, /proc) are modelled as the token sequences     *)
(* strings.Split / strings.Fields produce from them.  Gauge values are     *)
(* float64 in the program; they are modelled as exact reduced fractions    *)
(* [n, d] with d > 0.                                                      *)
EXTENDS Integers, Sequences, FiniteSets, TLC

\* ------------------------------------------------------------ bounds
MaxCycles == 2      \* Collect invocations per scrape goroutine
MaxVCPU == 2        \* largest vCPU count virsh dominfo reports
MaxThreads == 2     \* threads of one process in the getCPUStats inputs

Procs == {1, 2}                 \* scrape goroutines (promhttp serves requests concurrently)
VMs == {"a", "b"}               \* VM names; neither is a substring of the other
Gauges == {"user", "system", "iowait"}

\* ------------------------------------------------------------ tokens
\* One whitespace-delimited token of a text source: a decimal number or a word.
Num(k) == [num |-> TRUE, val |-> k]
Word == [num |-> FALSE, val |-> 0]

\* strconv.ParseInt / strconv.Atoi: value and error; a word parses to (0, error).
ParseInt(tok) == [v |-> IF tok.num THEN tok.val ELSE 0, err |-> ~tok.num]

\* ------------------------------------------------------------ fractions
RECURSIVE GCD(_, _)
GCD(x, y) == IF y = 0 THEN x ELSE GCD(y, x % y)

Abs(x) == IF x < 0 THEN -x ELSE x

\* The reduced fraction n/d, denominator positive.  As in float64, x/0 is
\* +Inf [1, 0] or -Inf [-1, 0], and 0/0 is NaN [0, 0].
Frac(n, d) ==
    LET g == GCD(Abs(n), Abs(d))
        s == IF d < 0 THEN -1 ELSE 1
    IN IF g = 0 THEN [n |-> 0, d |-> 0]
       ELSE [n |-> (s * n) \div g, d |-> (s * d) \div g]

FromInt(k) == [n |-> k, d |-> 1]
FMul(x, y) == Frac(x.n * y.n, x.d * y.d)
FDiv(x, y) == Frac(x.n * y.d, x.d * y.n)
FNeg(x) == x.n < 0
Zero == FromInt(0)

\* ------------------------------------------------------------ getVMList
\* The output of `virsh list --name`: the command may fail; otherwise lines,
\* a line being a VM name or "" (the blank line virsh prints last).
getVMList(out) ==
    IF out.fail THEN [list |-> <<>>, err |-> TRUE]
    ELSE [list |-> SelectSeq(out.lines, LAMBDA vm : vm # ""), err |-> FALSE]

\* ------------------------------------------------------------ getVCPUCount
\* The output of `virsh dominfo vm`: the command may fail; otherwise the
\* fields of its "CPU(s)" line (<<>> when there is no such line).
getVCPUCount(out) ==
    IF out.fail THEN [n |-> 0, err |-> TRUE]
    ELSE IF Len(out.parts) > 1
         THEN LET r == ParseInt(out.parts[2]) IN [n |-> r.v, err |-> r.err]
         ELSE [n |-> 0, err |-> FALSE]

\* ------------------------------------------------------------ getQEMUPID
\* One line of `ps aux`: whether it contains "qemu-system", the VM names it
\* contains, and its second field.
LineMatches(line, vm) == line.qemu /\ vm \in line.names

RECURSIVE FirstMatch(_, _)
FirstMatch(lines, vm) ==
    IF lines = <<>> THEN ""
    ELSE IF LineMatches(Head(lines), vm) THEN Head(lines).pid
    ELSE FirstMatch(Tail(lines), vm)

getQEMUPID(vm, out) ==
    IF out.fail THEN [pid |-> "", err |-> TRUE]
    ELSE [pid |-> FirstMatch(out.lines, vm), err |-> FALSE]

\* ------------------------------------------------------------ getCPUStats
\* /proc/<pid>/task/<tid>/stat as the kernel writes it: pid, (comm), state,
\* ppid pgrp session tty_nr tpgid flags minflt cminflt majflt cmajflt utime
\* stime and 37 more numbers.  comm is the thread name; it is written as is,
\* so a name with a blank in it ("CPU 0/KVM") is two tokens to strings.Fields.
\* A record cut short (short = TRUE) ends after its first ten tokens.
Pad(k) == [j \in 1..k |-> Num(0)]

StatText(t) ==
    <<Num(t.tid)>> \o [j \in 1..t.commWords |-> Word] \o <<Word>>
      \o Pad(9) \o <<Num(t.cmajflt), Num(t.utime), Num(t.stime)>> \o Pad(37)

Fields(t) == IF t.short THEN SubSeq(StatText(t), 1, 10) ELSE StatText(t)

\* filepath.Glob reports an error for a malformed pattern only.
BadPattern(pid) == pid = "["

RECURSIVE SumTasks(_)
SumTasks(tasks) ==
    IF tasks = <<>> THEN [u |-> 0, s |-> 0]
    ELSE LET t == Head(tasks)
             rest == SumTasks(Tail(tasks))
             parts == Fields(t)
         IN IF ~t.readable THEN rest
            ELSE IF Len(parts) < 15 THEN rest
            ELSE [u |-> ParseInt(parts[14]).v + rest.u,
                  s |-> ParseInt(parts[15]).v + rest.s]

\* tasks: the thread records the glob matches, <<>> when the process is gone.
getCPUStats(pid, tasks) ==
    IF BadPattern(pid) THEN [u |-> 0, s |-> 0, err |-> TRUE]
    ELSE [u |-> SumTasks(tasks).u, s |-> SumTasks(tasks).s, err |-> FALSE]

\* ------------------------------------------------------------ getIOWait
\* /proc/stat: the read may fail; otherwise the fields of its "cpu " line
\* (<<>> when there is none).
getIOWait(stat) ==
    IF stat.fail THEN [v |-> 0, err |-> TRUE]
    ELSE IF Len(stat.parts) > 5
         THEN ParseInt(stat.parts[6])
         ELSE [v |-> 0, err |-> FALSE]

\* ------------------------------------------------------------ percentages
\* Variant: the vCPU factor left out of the denominator.
totalIntervalNoVCPU(tk, vcpuCount) == FDiv(FromInt(tk), FromInt(10))

totalInterval(tk, vcpuCount) ==
    FMul(FDiv(FromInt(tk), FromInt(10)), FromInt(vcpuCount))

Pct(diff, tk, vcpuCount) ==
    FDiv(FMul(FromInt(diff), FromInt(100)), totalInterval(tk, vcpuCount))

\* Variant: no floor at 0.
ClampNone(pct) == pct

Clamp(pct) == IF FNeg(pct) THEN Zero ELSE pct

\* ------------------------------------------------------------ the sink
\* GaugeVec.WithLabelValues(vm).Set(v): an upsert of one label's value.
\* Variant: the map replaced instead of updated.
GaugeSetOnly(g, vm, v) == [x \in {vm} |-> v]

GaugeSet(g, vm, v) == [x \in DOMAIN g \cup {vm} |-> IF x = vm THEN v ELSE g[x]]

\* ------------------------------------------------------------ control flow
\* `if err != nil { ...; continue }`: the label the loop body goes to.
\* Variants: the `continue` missing; `break` in its place.
BranchFallThrough(failed, next) == next

BranchBreak(failed, next) == IF failed THEN "emitUser" ELSE next

Branch(failed, next) == IF failed THEN "loop" ELSE next

\* `if err != nil { ...; return }` after getVMList.
\* Variant: the `return` missing.
AfterEnumerateNoReturn(err) == "loop"

AfterEnumerate(err) == IF err THEN "idle" ELSE "loop"

\* The statement that follows the first snapshot.
\* Variant: the Sleep missing.
AfterSnapshot1NoSleep == "stats2"

AfterSnapshot1 == "sleep"

\* ------------------------------------------------------------ inputs
Thr(u, s) ==
    [tid |-> 1, readable |-> TRUE, short |-> FALSE, commWords |-> 1,
     cmajflt |-> 0, utime |-> u, stime |-> s]

CpuLine(io) == <<Word>> \o Pad(4) \o <<Num(io)>> \o Pad(4)

QemuLine(vm, pid) == [qemu |-> TRUE, names |-> {vm}, pid |-> pid]
OtherLine(vm, pid) == [qemu |-> FALSE, names |-> {vm}, pid |-> pid]

\* What the sources can return to one Collect invocation.
FullEnv ==
    [virsh   |-> {[fail |-> TRUE, lines |-> <<>>]}
                 \cup {[fail |-> FALSE, lines |-> l] :
                        l \in {<<"">>, <<"a", "">>, <<"a", "b", "">>}},
     dominfo |-> {[fail |-> TRUE, parts |-> <<>>],
                  [fail |-> FALSE, parts |-> <<>>],
                  [fail |-> FALSE, parts |-> <<Word, Word>>]}
                 \cup {[fail |-> FALSE, parts |-> <<Word, Num(k)>>] : k \in 0..MaxVCPU},
     ps      |-> {[fail |-> TRUE, lines |-> <<>>],
                  [fail |-> FALSE, lines |-> <<OtherLine("a", "7")>>],
                  [fail |-> FALSE, lines |-> <<OtherLine("a", "7"), QemuLine("a", "101")>>],
                  [fail |-> FALSE, lines |-> <<QemuLine("b", "102")>>],
                  [fail |-> FALSE, lines |-> <<QemuLine("a", "101"), QemuLine("b", "102")>>]},
     tasks   |-> {<<>>, <<Thr(0, 0)>>, <<Thr(5, 3), Thr(25, 0)>>},
     stat    |-> {[fail |-> TRUE, parts |-> <<>>],
                  [fail |-> FALSE, parts |-> <<Word>> \o Pad(4)],
                  [fail |-> FALSE, parts |-> CpuLine(0)],
                  [fail |-> FALSE, parts |-> CpuLine(2)]}]

\* The sources of a host with one healthy VM, for concurrent scrapes.
SmallEnv ==
    [virsh   |-> {[fail |-> FALSE, lines |-> <<"a", "">>]},
     dominfo |-> {[fail |-> FALSE, parts |-> <<Word, Num(1)>>]},
     ps      |-> {[fail |-> FALSE, lines |-> <<QemuLine("a", "101")>>]},
     tasks   |-> {<<Thr(0, 0)>>, <<Thr(5, 3)>>},
     stat    |-> {[fail |-> FALSE, parts |-> CpuLine(0)]}]

\* ------------------------------------------------------------ state
VARIABLES
    tick,          \* VMCPUCollector.tick
    userUsage,     \* the three GaugeVecs: VM name -> value
    systemUsage,
    iowaitUsage,
    pc,            \* per goroutine: where it is in Collect ("idle": not in it)
    vmList,        \* Collect's vmList
    idx,           \* position of the range loop in vmList
    loc,           \* the loop body's locals
    cycle,         \* Collect invocations started by the goroutine
    stamp,         \* history: which goroutine last set each gauge label
    log,           \* history: the calls of the current invocation, in order
    wr,            \* history: <<gauge, vm>> set by the current invocation
    envFail,       \* history: <<vm, step>> whose lookup or read failed or was empty
    gone,          \* history: VMs whose process had no thread record at a snapshot
    enumErr,       \* history: getVMList failed in the current invocation
    seen,          \* what the invocation's final gauge Collect calls emitted
    statPid,       \* getCPUStats under test: its arguments and result
    statTasks,
    statOut

gaugeVars == <<userUsage, systemUsage, iowaitUsage, stamp>>
statVars == <<statPid, statTasks, statOut>>
vars == <<tick, userUsage, systemUsage, iowaitUsage, pc, vmList, idx, loc, cycle,
          stamp, log, wr, envFail, gone, enumErr, seen, statPid, statTasks, statOut>>

NoLoc ==
    [vm |-> "", vcpuCount |-> 0, pid |-> "",
     utime1 |-> 0, stime1 |-> 0, iowait1 |-> 0,
     utime2 |-> 0, stime2 |-> 0, iowait2 |-> 0]

Empty == [x \in {} |-> Zero]
NoSeen == [g \in Gauges |-> [val |-> Empty, by |-> Empty]]

Ticks == {100}

InitCollector ==
    /\ userUsage = Empty
    /\ systemUsage = Empty
    /\ iowaitUsage = Empty
    /\ stamp = [g \in Gauges |-> Empty]
    /\ pc = [p \in Procs |-> "idle"]
    /\ vmList = [p \in Procs |-> <<>>]
    /\ idx = [p \in Procs |-> 1]
    /\ loc = [p \in Procs |-> NoLoc]
    /\ cycle = [p \in Procs |-> 0]
    /\ log = [p \in Procs |-> <<>>]
    /\ wr = [p \in Procs |-> {}]
    /\ envFail = [p \in Procs |-> {}]
    /\ gone = [p \in Procs |-> {}]
    /\ enumErr = [p \in Procs |-> FALSE]
    /\ seen = [p \in Procs |-> NoSeen]

NoStat ==
    /\ statPid = ""
    /\ statTasks = <<>>
    /\ statOut = [called |-> FALSE, u |-> 0, s |-> 0, err |-> FALSE]

\* NewVMCPUCollector: the tick is read once; the gauges start empty.
Init ==
    /\ tick \in Ticks
    /\ InitCollector
    /\ NoStat

\* ------------------------------------------------------------ Collect
Tag(p) == p
Entry(op, p) == <<op, loc[p].vm>>

\* Leaving a statement of the loop body: to `next`, or out of the body
\* (`continue`) when the call failed.
Leave(p, op, failed, next, newLoc) ==
    LET to == Branch(failed, next) IN
    /\ pc' = [pc EXCEPT ![p] = to]
    /\ idx' = [idx EXCEPT ![p] = IF to = "loop" THEN idx[p] + 1 ELSE idx[p]]
    /\ loc' = [loc EXCEPT ![p] = IF to = "loop" THEN NoLoc ELSE newLoc]
    /\ log' = [log EXCEPT ![p] = Append(log[p], Entry(op, p))]
    /\ envFail' = [envFail EXCEPT ![p] =
                     IF failed THEN envFail[p] \cup {Entry(op, p)} ELSE envFail[p]]

\* vmList, err := getVMList(); if err != nil { return }
Enumerate(p, E) ==
    /\ pc[p] = "idle"
    /\ cycle[p] < MaxCycles
    /\ \E out \in E.virsh :
         LET r == getVMList(out) IN
         /\ vmList' = [vmList EXCEPT ![p] = r.list]
         /\ enumErr' = [enumErr EXCEPT ![p] = r.err]
         /\ pc' = [pc EXCEPT ![p] = AfterEnumerate(r.err)]
    /\ cycle' = [cycle EXCEPT ![p] = cycle[p] + 1]
    /\ idx' = [idx EXCEPT ![p] = 1]
    /\ loc' = [loc EXCEPT ![p] = NoLoc]
    /\ log' = [log EXCEPT ![p] = <<<<"getVMList", "">>>>]
    /\ wr' = [wr EXCEPT ![p] = {}]
    /\ envFail' = [envFail EXCEPT ![p] = {}]
    /\ gone' = [gone EXCEPT ![p] = {}]
    /\ seen' = [seen EXCEPT ![p] = NoSeen]
    /\ UNCHANGED <<tick, gaugeVars, statVars>>

\* for _, vm := range vmList
Loop(p) ==
    /\ pc[p] = "loop"
    /\ IF idx[p] <= Len(vmList[p])
       THEN /\ pc' = [pc EXCEPT ![p] = "vcpu"]
            /\ loc' = [loc EXCEPT ![p] = [NoLoc EXCEPT !.vm = vmList[p][idx[p]]]]
       ELSE /\ pc' = [pc EXCEPT ![p] = "emitUser"]
            /\ loc' = [loc EXCEPT ![p] = NoLoc]
    /\ UNCHANGED <<tick, gaugeVars, statVars, vmList, idx, cycle, log, wr, envFail,
                   gone, enumErr, seen>>

\* vcpuCount, err := getVCPUCount(vm); if err != nil || vcpuCount == 0 { continue }
VCPUCount(p, E) ==
    /\ pc[p] = "vcpu"
    /\ \E out \in E.dominfo :
         LET r == getVCPUCount(out) IN
         Leave(p, "getVCPUCount", r.err \/ r.n = 0, "pid",
               [loc[p] EXCEPT !.vcpuCount = r.n])
    /\ UNCHANGED <<tick, gaugeVars, statVars, vmList, cycle, wr, gone, enumErr, seen>>

\* pid, err := getQEMUPID(vm); if err != nil || pid == "" { continue }
QEMUPID(p, E) ==
    /\ pc[p] = "pid"
    /\ \E out \in E.ps :
         LET r == getQEMUPID(loc[p].vm, out) IN
         Leave(p, "getQEMUPID", r.err \/ r.pid = "", "stats1",
               [loc[p] EXCEPT !.pid = r.pid])
    /\ UNCHANGED <<tick, gaugeVars, statVars, vmList, cycle, wr, gone, enumErr, seen>>

NoteGone(p, tasks) ==
    gone' = [gone EXCEPT ![p] = IF tasks = <<>> THEN gone[p] \cup {loc[p].vm} ELSE gone[p]]

\* utime1, stime1, err := getCPUStats(pid); if err != nil { continue }
CPUStats1(p, E) ==
    /\ pc[p] = "stats1"
    /\ \E tasks \in E.tasks :
         LET r == getCPUStats(loc[p].pid, tasks) IN
         /\ Leave(p, "getCPUStats1", r.err, "iowait1",
                  [loc[p] EXCEPT !.utime1 = r.u, !.stime1 = r.s])
         /\ NoteGone(p, tasks)
    /\ UNCHANGED <<tick, gaugeVars, statVars, vmList, cycle, wr, enumErr, seen>>

\* iowait1, err := getIOWait(); if err != nil { continue }
IOWait1(p, E) ==
    /\ pc[p] = "iowait1"
    /\ \E stat \in E.stat :
         LET r == getIOWait(stat) IN
         Leave(p, "getIOWait1", r.err, AfterSnapshot1, [loc[p] EXCEPT !.iowait1 = r.v])
    /\ UNCHANGED <<tick, gaugeVars, statVars, vmList, cycle, wr, gone, enumErr, seen>>

\* time.Sleep(100 * time.Millisecond)
Sleep(p) ==
    /\ pc[p] = "sleep"
    /\ pc' = [pc EXCEPT ![p] = "stats2"]
    /\ log' = [log EXCEPT ![p] = Append(log[p], Entry("Sleep", p))]
    /\ UNCHANGED <<tick, gaugeVars, statVars, vmList, idx, loc, cycle, wr, envFail,
                   gone, enumErr, seen>>

\* utime2, stime2, err := getCPUStats(pid); if err != nil { continue }
CPUStats2(p, E) ==
    /\ pc[p] = "stats2"
    /\ \E tasks \in E.tasks :
         LET r == getCPUStats(loc[p].pid, tasks) IN
         /\ Leave(p, "getCPUStats2", r.err, "iowait2",
                  [loc[p] EXCEPT !.utime2 = r.u, !.stime2 = r.s])
         /\ NoteGone(p, tasks)
    /\ UNCHANGED <<tick, gaugeVars, statVars, vmList, cycle, wr, enumErr, seen>>

\* iowait2, err := getIOWait(); if err != nil { continue }
IOWait2(p, E) ==
    /\ pc[p] = "iowait2"
    /\ \E stat \in E.stat :
         LET r == getIOWait(stat) IN
         Leave(p, "getIOWait2", r.err, "setUser", [loc[p] EXCEPT !.iowait2 = r.v])
    /\ UNCHANGED <<tick, gaugeVars, statVars, vmList, cycle, wr, gone, enumErr, seen>>

\* The differences and the clamped percentages of the loop body's locals.
utimeDiff(l) == l.utime2 - l.utime1
stimeDiff(l) == l.stime2 - l.stime1
iowaitDiff(l) == l.iowait2 - l.iowait1

userPct(l) == Clamp(Pct(utimeDiff(l), tick, l.vcpuCount))
systemPct(l) == Clamp(Pct(stimeDiff(l), tick, l.vcpuCount))
iowaitPct(l) == Clamp(Pct(iowaitDiff(l), tick, l.vcpuCount))

Stamped(p, g) ==
    stamp' = [stamp EXCEPT ![g] = GaugeSet(stamp[g], loc[p].vm, Tag(p))]

Wrote(p, g) == wr' = [wr EXCEPT ![p] = wr[p] \cup {<<g, loc[p].vm>>}]

\* c.userUsage.WithLabelValues(vm).Set(userPct)
SetUser(p) ==
    /\ pc[p] = "setUser"
    /\ userUsage' = GaugeSet(userUsage, loc[p].vm, userPct(loc[p]))
    /\ Stamped(p, "user")
    /\ Wrote(p, "user")
    /\ log' = [log EXCEPT ![p] = Append(log[p], Entry("SetUser", p))]
    /\ pc' = [pc EXCEPT ![p] = "setSystem"]
    /\ UNCHANGED <<tick, systemUsage, iowaitUsage, statVars, vmList, idx, loc, cycle,
                   envFail, gone, enumErr, seen>>

\* c.systemUsage.WithLabelValues(vm).Set(systemPct)
SetSystem(p) ==
    /\ pc[p] = "setSystem"
    /\ systemUsage' = GaugeSet(systemUsage, loc[p].vm, systemPct(loc[p]))
    /\ Stamped(p, "system")
    /\ Wrote(p, "system")
    /\ log' = [log EXCEPT ![p] = Append(log[p], Entry("SetSystem", p))]
    /\ pc' = [pc EXCEPT ![p] = "setIowait"]
    /\ UNCHANGED <<tick, userUsage, iowaitUsage, statVars, vmList, idx, loc, cycle,
                   envFail, gone, enumErr, seen>>

\* c.iowaitUsage.WithLabelValues(vm).Set(iowaitPct); the loop body ends
SetIowait(p) ==
    /\ pc[p] = "setIowait"
    /\ iowaitUsage' = GaugeSet(iowaitUsage, loc[p].vm, iowaitPct(loc[p]))
    /\ Stamped(p, "iowait")
    /\ Wrote(p, "iowait")
    /\ log' = [log EXCEPT ![p] = Append(log[p], Entry("SetIowait", p))]
    /\ pc' = [pc EXCEPT ![p] = "loop"]
    /\ idx' = [idx EXCEPT ![p] = idx[p] + 1]
    /\ UNCHANGED <<tick, userUsage, systemUsage, statVars, vmList, loc, cycle,
                   envFail, gone, enumErr, seen>>

Emitted(p, g, values) ==
    seen' = [seen EXCEPT ![p][g] = [val |-> values, by |-> stamp[g]]]

\* c.userUsage.Collect(ch)
EmitUser(p) ==
    /\ pc[p] = "emitUser"
    /\ Emitted(p, "user", userUsage)
    /\ pc' = [pc EXCEPT ![p] = "emitSystem"]
    /\ UNCHANGED <<tick, gaugeVars, statVars, vmList, idx, loc, cycle, log, wr,
                   envFail, gone, enumErr>>

\* c.systemUsage.Collect(ch)
EmitSystem(p) ==
    /\ pc[p] = "emitSystem"
    /\ Emitted(p, "system", systemUsage)
    /\ pc' = [pc EXCEPT ![p] = "emitIowait"]
    /\ UNCHANGED <<tick, gaugeVars, statVars, vmList, idx, loc, cycle, log, wr,
                   envFail, gone, enumErr>>

\* c.iowaitUsage.Collect(ch); Collect returns
EmitIowait(p) ==
    /\ pc[p] = "emitIowait"
    /\ Emitted(p, "iowait", iowaitUsage)
    /\ pc' = [pc EXCEPT ![p] = "idle"]
    /\ UNCHANGED <<tick, gaugeVars, statVars, vmList, idx, loc, cycle, log, wr,
                   envFail, gone, enumErr>>

\* One step of goroutine p's Collect against the sources E.
Collect(p, E) ==
    \/ Enumerate(p, E)
    \/ Loop(p)
    \/ VCPUCount(p, E)
    \/ QEMUPID(p, E)
    \/ CPUStats1(p, E)
    \/ IOWait1(p, E)
    \/ Sleep(p)
    \/ CPUStats2(p, E)
    \/ IOWait2(p, E)
    \/ SetUser(p)
    \/ SetSystem(p)
    \/ SetIowait(p)
    \/ EmitUser(p)
    \/ EmitSystem(p)
    \/ EmitIowait(p)

\* Scrapes served one at a time.
Next == Collect(1, FullEnv)

Spec == Init /\ [][Next]_vars

\* Two scrapes served at once (net/http runs each request in its own goroutine).
InitConc ==
    /\ tick = 100
    /\ InitCollector
    /\ NoStat

NextConc == \E p \in Procs : Collect(p, SmallEnv)

SpecConc == InitConc /\ [][NextConc]_vars

\* ------------------------------------------------------------ getCPUStats alone
ThreadRecords ==
    [tid : {1}, readable : BOOLEAN, short : BOOLEAN, commWords : {1, 2},
     cmajflt : {0, 9}, utime : {0, 4}, stime : {0, 1}]

TaskLists == UNION {[1..k -> ThreadRecords] : k \in 0..MaxThreads}

InitStats ==
    /\ tick = 100
    /\ InitCollector
    /\ statPid \in {"101", "["}
    /\ statTasks \in TaskLists
    /\ statOut = [called |-> FALSE, u |-> 0, s |-> 0, err |-> FALSE]

CallStats ==
    /\ ~statOut.called
    /\ statOut' = [called |-> TRUE] @@ getCPUStats(statPid, statTasks)
    /\ UNCHANGED <<tick, gaugeVars, pc, vmList, idx, loc, cycle, log, wr, envFail,
                   gone, enumErr, seen, statPid, statTasks>>

NextStats == CallStats

SpecStats == InitStats /\ [][NextStats]_vars

\* ============================================================ properties
Gauge(g) ==
    CASE g = "user" -> userUsage
      [] g = "system" -> systemUsage
      [] g = "iowait" -> iowaitUsage

\* Goroutine p has just published the VM loc[p].vm (the loop body's end).
JustPublished(p) == pc[p] = "loop" /\ loc[p].vm # ""

\* Goroutine p's invocation has returned.
Returned(p) == pc[p] = "idle" /\ cycle[p] > 0

\* The invocation set all three gauges of vm / none of them.
WroteAll(p, vm) == \A g \in Gauges : <<g, vm>> \in wr[p]
WroteNone(p, vm) == \A g \in Gauges : <<g, vm>> \notin wr[p]

\* A lookup or snapshot read of vm failed or was empty in p's invocation.
Skipped(p, vm) == \E e \in envFail[p] : e[2] = vm

InList(p, vm) == \E k \in 1..Len(vmList[p]) : vmList[p][k] = vm

\* value = 100 * diff / ((tick / 10) * vcpuCount), cross-multiplied.
IsPct(value, diff, vcpuCount) ==
    value.d > 0 /\ value.n * tick * vcpuCount = 100 * diff * 10 * value.d

\* C1: right after a VM is published, each gauge whose delta is >= 0 holds
\* 100 * delta / totalInterval, totalInterval = (tick / 10) * vcpuCount > 0.
C1_Percentage ==
    JustPublished(1) =>
        LET l == loc[1] IN
        /\ tick * l.vcpuCount > 0
        /\ utimeDiff(l) >= 0 => IsPct(userUsage[l.vm], utimeDiff(l), l.vcpuCount)
        /\ stimeDiff(l) >= 0 => IsPct(systemUsage[l.vm], stimeDiff(l), l.vcpuCount)
        /\ iowaitDiff(l) >= 0 => IsPct(iowaitUsage[l.vm], iowaitDiff(l), l.vcpuCount)

\* C1 witness: tick 100, 2 vCPUs, delta 30 published as 150 (above 100).
C1_Witness ==
    /\ JustPublished(1)
    /\ tick = 100 /\ loc[1].vcpuCount = 2 /\ utimeDiff(loc[1]) = 30
    /\ userUsage[loc[1].vm] = FromInt(150)

\* C2: every gauge value is >= 0, and a VM just published with a negative
\* delta has exactly 0 in that gauge.
C2_Clamp ==
    /\ \A g \in Gauges : \A vm \in DOMAIN Gauge(g) :
          Gauge(g)[vm].d > 0 /\ Gauge(g)[vm].n >= 0
    /\ JustPublished(1) =>
          LET l == loc[1] IN
          /\ utimeDiff(l) < 0 => userUsage[l.vm] = Zero
          /\ stimeDiff(l) < 0 => systemUsage[l.vm] = Zero
          /\ iowaitDiff(l) < 0 => iowaitUsage[l.vm] = Zero

\* C2 witness: a live process whose sums and the host iowait all went down.
C2_Witness ==
    /\ JustPublished(1)
    /\ loc[1].vm \notin gone[1]
    /\ utimeDiff(loc[1]) < 0 /\ stimeDiff(loc[1]) < 0 /\ iowaitDiff(loc[1]) < 0
    /\ userUsage[loc[1].vm] = Zero

\* C3: when an invocation that enumerated its VMs returns, every VM of the
\* list none of whose lookups or reads failed was published by it.
C3_SkipContinues ==
    (Returned(1) /\ ~enumErr[1]) =>
        \A vm \in VMs : (InList(1, vm) /\ ~Skipped(1, vm)) => WroteAll(1, vm)

\* C3 witness: the first VM found no process-table match, the second was
\* published in the same invocation.
C3_Witness ==
    /\ Returned(1)
    /\ vmList[1] = <<"a", "b">>
    /\ <<"getQEMUPID", "a">> \in envFail[1]
    /\ WroteAll(1, "b")

\* C4 (state part): a VM a lookup or read of which failed has no gauge set
\* by that invocation, and outside the three Set calls a VM has all three
\* gauges set by the invocation or none.
C4_NoWrite ==
    /\ \A vm \in VMs : Skipped(1, vm) => WroteNone(1, vm)
    /\ pc[1] \notin {"setSystem", "setIowait"} =>
          \A vm \in VMs : WroteAll(1, vm) \/ WroteNone(1, vm)

\* One gauge label as the sink holds it: absent, or a value and who set it.
EntryOf(g, vm) ==
    IF vm \in DOMAIN Gauge(g)
    THEN [here |-> TRUE, val |-> Gauge(g)[vm], by |-> stamp[g][vm]]
    ELSE [here |-> FALSE, val |-> Zero, by |-> 0]

\* C4 (step part): a gauge entry changes only when the invocation sets it.
C4_Frame ==
    \A g \in Gauges : \A vm \in VMs :
        EntryOf(g, vm)' # EntryOf(g, vm)
            => (<<g, vm>> \in wr'[1] /\ <<g, vm>> \notin wr[1])

\* C4: a skipped VM gets no sink write in that invocation: its three gauge
\* entries stay as they were, and no VM is left with one or two gauges set.
C4_SkippedUntouched == []C4_NoWrite /\ [][C4_Frame]_vars

\* C4 witness: the second snapshot's iowait read failed after the sleep, for
\* a VM published by an earlier invocation, whose triple is still in place.
C4_Witness ==
    /\ Returned(1) /\ cycle[1] = 2
    /\ <<"getIOWait2", "a">> \in envFail[1]
    /\ \A g \in Gauges : "a" \in DOMAIN Gauge(g)
    /\ WroteNone(1, "a")

\* C5: after getVMList fails the invocation has returned having done nothing
\* else (no lookup, snapshot, sink write or emission), and a next invocation
\* starts with the enumeration again.
C5_EnumerationFailure ==
    enumErr[1] =>
        /\ pc[1] = "idle"
        /\ log[1] = <<<<"getVMList", "">>>>
        /\ wr[1] = {}
        /\ seen[1] = NoSeen
        /\ cycle[1] < MaxCycles => ENABLED Enumerate(1, FullEnv)

\* C5 witness: the enumeration fails in the invocation after one that
\* published VM a.
C5_Witness ==
    /\ enumErr[1] /\ cycle[1] = 2
    /\ "a" \in DOMAIN userUsage

\* C6 as claimed: a VM whose process had no thread record at a snapshot gets
\* no sink write in that invocation.
C6_Claim == \A vm \in gone[1] : WroteNone(1, vm)

\* C8 (one step): a VM present in a gauge stays in it, and its value is replaced only by
\* a Set for that VM; no other step of any invocation touches it.
C8_Step ==
    \A g \in Gauges : \A vm \in DOMAIN Gauge(g) :
        /\ vm \in DOMAIN Gauge(g)'
        /\ EntryOf(g, vm)' # EntryOf(g, vm)
              => \E p \in Procs :
                    pc[p] \in {"setUser", "setSystem", "setIowait"} /\ loc[p].vm = vm

\* C8: once in the sink, a VM stays in each gauge in every later state,
\* keeping its value until a Set for that VM replaces it.
C8_Persist == [][C8_Step]_vars

\* C8 witness: VM a, published by the first invocation, is still in all
\* three gauges after a second invocation whose VM list was empty.
C8_Witness ==
    /\ Returned(1) /\ cycle[1] = 2 /\ ~enumErr[1] /\ vmList[1] = <<>>
    /\ \A g \in Gauges : "a" \in DOMAIN Gauge(g)
    /\ WroteNone(1, "a")

\* C9 as claimed: what a returned invocation emitted holds, for each VM, all
\* three values or none, all set by one invocation's update of that VM (so
\* all three by the same goroutine).
C9_Claim ==
    \A p \in Procs : Returned(p) =>
        \A vm \in VMs :
            \/ \A g \in Gauges : vm \notin DOMAIN seen[p][g].val
            \/ /\ \A g \in Gauges : vm \in DOMAIN seen[p][g].val
               /\ \A g \in Gauges : seen[p][g].by[vm] = seen[p]["user"].by[vm]

\* The calls of a published VM, in order.
FullSeq ==
    <<"getVCPUCount", "getQEMUPID", "getCPUStats1", "getIOWait1", "Sleep",
      "getCPUStats2", "getIOWait2", "SetUser", "SetSystem", "SetIowait">>

OpsOf(lg, vm) ==
    LET mine == SelectSeq(lg, LAMBDA e : e[2] = vm)
    IN [k \in 1..Len(mine) |-> mine[k][1]]

IsPrefix(a, b) == Len(a) <= Len(b) /\ \A k \in 1..Len(a) : a[k] = b[k]

Pos(p, vm) == CHOOSE k \in 1..Len(vmList[p]) : vmList[p][k] = vm

\* C10: the invocation's calls are getVMList and then, VM by VM in list
\* order, a prefix of FullSeq (each call at most once, one Sleep, after
\* snapshot 1): the whole of it for a published VM, ending at the failed call
\* for a skipped one; a VM's first call follows the previous VM's last.
C10_Order ==
    LET lg == log[1]
        ops == [vm \in VMs |-> OpsOf(lg, vm)]
    IN
    /\ \A k \in 1..Len(lg) : (lg[k][1] = "getVMList") <=> (k = 1)
    /\ \A k \in 2..Len(lg) : InList(1, lg[k][2])
    /\ \A vm \in VMs : IsPrefix(ops[vm], FullSeq)
    /\ \A vm \in VMs : WroteAll(1, vm) => ops[vm] = FullSeq
    /\ \A k \in 2..(Len(lg) - 1) : Pos(1, lg[k][2]) <= Pos(1, lg[k + 1][2])
    /\ \A k \in 2..(Len(lg) - 1) :
          lg[k + 1][2] # lg[k][2]
             => (lg[k][1] = "SetIowait" \/ lg[k] \in envFail[1])
    /\ \A e \in envFail[1] :
          /\ ops[e[2]] # <<>> /\ ops[e[2]][Len(ops[e[2]])] = e[1]
          /\ e[1] \in {"getVCPUCount", "getQEMUPID", "getCPUStats1", "getIOWait1"}
                => \A k \in 1..Len(ops[e[2]]) : ops[e[2]][k] # "Sleep"

\* C10 witness: of two VMs the first was published after all ten calls and
\* the second, skipped at snapshot 1's iowait read, had four calls, no Sleep.
C10_Witness ==
    /\ Returned(1) /\ vmList[1] = <<"a", "b">>
    /\ OpsOf(log[1], "a") = FullSeq
    /\ OpsOf(log[1], "b") = SubSeq(FullSeq, 1, 4)
    /\ <<"getIOWait1", "b">> \in envFail[1]

\* ------------------------------------------------------------ getCPUStats
WellFormed(t) == t.readable /\ Len(Fields(t)) >= 15

RECURSIVE UserTicks(_)
UserTicks(tasks) ==
    IF tasks = <<>> THEN 0
    ELSE (IF WellFormed(Head(tasks)) THEN Head(tasks).utime ELSE 0)
         + UserTicks(Tail(tasks))

RECURSIVE SystemTicks(_)
SystemTicks(tasks) ==
    IF tasks = <<>> THEN 0
    ELSE (IF WellFormed(Head(tasks)) THEN Head(tasks).stime ELSE 0)
         + SystemTicks(Tail(tasks))

\* C7 as claimed: getCPUStats returns, without error, the user ticks and the
\* system ticks summed over the readable records of at least 15 fields.
C7_Claim ==
    (statOut.called /\ ~BadPattern(statPid)) =>
        /\ ~statOut.err
        /\ statOut.u = UserTicks(statTasks)
        /\ statOut.s = SystemTicks(statTasks)

\* The same sum holds when no summed record has a blank in its thread name:
\* unreadable and short records add nothing and raise no error.
PartialSum ==
    (/\ statOut.called /\ ~BadPattern(statPid)
     /\ \A k \in 1..Len(statTasks) :
           WellFormed(statTasks[k]) => statTasks[k].commWords = 1)
    => (/\ ~statOut.err
        /\ statOut.u = UserTicks(statTasks)
        /\ statOut.s = SystemTicks(statTasks))

=============================================================================
